---- MODULE Spec2Model ----
(***************************************************************************)
(* Model of the word-count API (main.go, wordcounter/counter.go).          *)
(*                                                                         *)
(* A string is a sequence of Unicode code points (97 is 'a', 65 is 'A',    *)
(* 49 is '1', 95 is '_', 32 is ' ', 233 is e-acute).                       *)
(*                                                                         *)
(* Two specifications:                                                     *)
(*   TextSpec  processText applied to every text up to MaxTextLen          *)
(*   Spec      the HTTP handlers handleUpload and handleGetAnalysis run by *)
(*             concurrent workers over the process-wide store              *)
(***************************************************************************)
EXTENDS Integers, Sequences, FiniteSets, TLC

\* ------------------------------------------------------------------ bounds
MaxTextLen == 5
NumWorkers == 2
MaxRequests == 3
MaxPages == 2

\* ---------------------------------------------------------------- helpers
Min(S) == CHOOSE x \in S : \A y \in S : x <= y
Max(S) == CHOOSE x \in S : \A y \in S : x >= y

RECURSIVE StringsUpTo(_, _)
StringsUpTo(alphabet, n) ==
    IF n = 0 THEN {<<>>}
    ELSE LET shorter == StringsUpTo(alphabet, n - 1)
         IN  shorter \cup {Append(s, c) : s \in shorter, c \in alphabet}

\* ' ', '1', 'A', '_', 'a', 'b', e-acute
Alphabet == {32, 49, 65, 95, 97, 98, 233}
Texts == StringsUpTo(Alphabet, MaxTextLen)

\* ------------------------------------------------------ strings.ToLower
\* unicode.ToLower on the Latin-1 range
ToLowerRune(c) ==
    IF (c >= 65 /\ c <= 90) \/ (c >= 192 /\ c <= 222 /\ c # 215)
    THEN c + 32
    ELSE c

ToLower(text) == [i \in 1..Len(text) |-> ToLowerRune(text[i])]

\* ------------------------------------------------------------ wordRegex
\* \p{L} on the Latin-1 range
IsLetter(c) ==
    \/ c >= 65 /\ c <= 90
    \/ c >= 97 /\ c <= 122
    \/ c \in {170, 181, 186}
    \/ c >= 192 /\ c <= 255 /\ c \notin {215, 247}

\* the word characters of \b in Go's regexp: ASCII [0-9A-Za-z_]
IsWordChar(c) ==
    \/ c >= 48 /\ c <= 57
    \/ c >= 65 /\ c <= 90
    \/ c = 95
    \/ c >= 97 /\ c <= 122

\* \b at offset i of text (0 is before the first character)
WordBoundary(text, i) ==
    LET before == i >= 1 /\ IsWordChar(text[i])
        after  == i < Len(text) /\ IsWordChar(text[i + 1])
    IN  before # after

\* ends e of the matches of \b[\p{L}]+\b that start at offset s
MatchEnds(text, s) ==
    {e \in (s + 1)..Len(text) :
        /\ \A k \in (s + 1)..e : IsLetter(text[k])
        /\ WordBoundary(text, e)}

MatchesAt(text, s) == WordBoundary(text, s) /\ MatchEnds(text, s) # {}

\* wordRegex.FindAllString(text, -1): leftmost match, greedy, then on from
\* its end
RECURSIVE FindAllFrom(_, _)
FindAllFrom(text, pos) ==
    LET starts == {s \in pos..(Len(text) - 1) : MatchesAt(text, s)}
    IN  IF starts = {} THEN <<>>
        ELSE LET s == Min(starts)
                 e == Max(MatchEnds(text, s))
             IN  <<SubSeq(text, s + 1, e)>> \o FindAllFrom(text, e)

FindAllString(text) == FindAllFrom(text, 0)

\* ---------------------------------------------------------- processText
\* mutant: frequencies[word] = 1
IncrementMutant(m, word) ==
    [w \in DOMAIN m \cup {word} |-> IF w = word THEN 1 ELSE m[w]]

\* frequencies[word]++ on a map whose missing keys read as 0
Increment(m, word) ==
    IF word \in DOMAIN m
    THEN [m EXCEPT ![word] = @ + 1]
    ELSE [w \in DOMAIN m \cup {word} |-> IF w = word THEN 1 ELSE m[w]]

EmptyMap == [w \in {} |-> 0]

RECURSIVE CountFrom(_, _, _)
CountFrom(words, i, m) ==
    IF i > Len(words) THEN m
    ELSE CountFrom(words, i + 1, Increment(m, words[i]))

CountWords(words) == CountFrom(words, 1, EmptyMap)

\* the orders in which "range frequencies" may enumerate the map's keys
RangeOrders(m) ==
    {o \in [1..Cardinality(DOMAIN m) -> DOMAIN m] :
        \A i, j \in DOMAIN o : i # j => o[i] # o[j]}

ToSlice(m, order) ==
    [i \in 1..Len(order) |-> [Word |-> order[i], Frequency |-> m[order[i]]]]

\* mutant: the comparison turned round
LessMutant(x, y) == x.Frequency < y.Frequency

\* the less function handed to sort.Slice
Less(x, y) == x.Frequency > y.Frequency

Swap(s, i, j) == [s EXCEPT ![i] = s[j], ![j] = s[i]]

\* sort.Slice on fewer than 12 elements is an insertion sort
RECURSIVE InsertInner(_, _)
InsertInner(s, j) ==
    IF j > 1 /\ Less(s[j], s[j - 1])
    THEN InsertInner(Swap(s, j, j - 1), j - 1)
    ELSE s

RECURSIVE InsertOuter(_, _)
InsertOuter(s, i) ==
    IF i > Len(s) THEN s ELSE InsertOuter(InsertInner(s, i), i + 1)

SortSlice(s) == InsertOuter(s, 2)

\* every result processText(text) can return
processText(text) ==
    LET m == CountWords(FindAllString(ToLower(text)))
    IN  {SortSlice(ToSlice(m, o)) : o \in RangeOrders(m)}

\* ================================================================ server
Workers == 1..NumWorkers

\* the values uuid.New().String() can return
Ids == 1..MaxRequests

\* the ids a GET can ask for; 0 is a path value that is no UUID
GetIds == {0} \cup Ids

ContentTypes ==
    {"text/plain", "application/pdf", "application/json", "text/plain; charset=utf-8"}

\* outcomes of ParseMultipartForm and FormFile
Forms == {"ok", "too large", "no file"}

\* the text files uploaded: "", "a b", "b a b"
Bodies == {<<>>, <<97, 32, 98>>, <<98, 32, 97, 32, 98>>}

\* what page.GetPlainText returns for page i: its text ("a" on page 1, "b" on
\* page 2, ...) or an error
PageResults(i) ==
    {[ok |-> TRUE, text |-> <<96 + i>>], [ok |-> FALSE, text |-> <<>>]}

\* the documents of at most n pages
RECURSIVE PagesUpTo(_)
PagesUpTo(n) ==
    IF n = 0 THEN {<<>>}
    ELSE LET shorter == PagesUpTo(n - 1)
         IN  shorter \cup {Append(s, r) : s \in {d \in shorter : Len(d) = n - 1},
                                          r \in PageResults(n)}

\* "%P", the bytes of a PDF read as text
PdfBytes == <<37, 80>>

\* An uploaded file: whether io.ReadAll succeeds, its bytes as a string, and
\* what pdf.NewReader makes of them (valid, with the pages' texts, or not).
Files ==
    {[readOk |-> FALSE, text |-> <<>>, valid |-> FALSE, pages |-> <<>>]}
    \cup {[readOk |-> TRUE, text |-> t, valid |-> FALSE, pages |-> <<>>] : t \in Bodies}
    \cup {[readOk |-> TRUE, text |-> PdfBytes, valid |-> TRUE, pages |-> ps] :
            ps \in PagesUpTo(MaxPages)}

NoFile == [readOk |-> FALSE, text |-> <<>>, valid |-> FALSE, pages |-> <<>>]
NoReq == [kind |-> "none", form |-> "ok", contentType |-> "", file |-> NoFile, id |-> 0]

\* the zero value of Analysis
ZeroAnalysis == [ID |-> 0, Frequencies |-> <<>>]
NoLookup == [analysis |-> ZeroAnalysis, exists |-> FALSE]
NoResp == [status |-> 0, error |-> "", id |-> 0, analysis |-> ZeroAnalysis]

VARIABLES
    analyses,     \* store.analyses
    muWriter,     \* the worker holding store.mu.Lock, 0 if none
    muReaders,    \* the workers holding store.mu.RLock
    issued,       \* the ids uuid.New has returned
    pc,           \* each worker's position in its handler
    req,          \* each worker's request
    text,         \* handleUpload's text
    err,          \* handleUpload's err
    frequencies,  \* handleUpload's frequencies
    analysisID,   \* handleUpload's analysisID
    lookup,       \* handleGetAnalysis's analysis, exists
    resp,         \* the response written to w
    started,      \* requests accepted so far
    uploaded,     \* history: id -> frequencies of each upload answered 200
    known,        \* history: the ids answered before each worker's GET began
    tText,        \* TextSpec: the argument of processText
    tWords,       \* TextSpec: words
    tResult,      \* TextSpec: the returned slice
    tDone         \* TextSpec: processText has returned

serverVars ==
    <<analyses, muWriter, muReaders, issued, pc, req, text, err, frequencies,
      analysisID, lookup, resp, started, uploaded, known>>
textVars == <<tText, tWords, tResult, tDone>>
vars == <<serverVars, textVars>>

NoStore == [id \in {} |-> ZeroAnalysis]

ServerInit ==
    /\ analyses = NoStore
    /\ muWriter = 0
    /\ muReaders = {}
    /\ issued = {}
    /\ pc = [p \in Workers |-> "idle"]
    /\ req = [p \in Workers |-> NoReq]
    /\ text = [p \in Workers |-> <<>>]
    /\ err = [p \in Workers |-> "nil"]
    /\ frequencies = [p \in Workers |-> <<>>]
    /\ analysisID = [p \in Workers |-> 0]
    /\ lookup = [p \in Workers |-> NoLookup]
    /\ resp = [p \in Workers |-> NoResp]
    /\ started = 0
    /\ uploaded = [id \in {} |-> <<>>]
    /\ known = [p \in Workers |-> {}]

Init ==
    /\ ServerInit
    /\ tText = <<>>
    /\ tWords = <<>>
    /\ tResult = <<>>
    /\ tDone = FALSE

\* ------------------------------------------------------------ handleUpload
\* mutant: any text/plain media type, parameters included
isValidContentTypeMutant(contentType) ==
    contentType \in {"text/plain", "application/pdf", "text/plain; charset=utf-8"}

isValidContentType(contentType) ==
    contentType = "text/plain" \/ contentType = "application/pdf"

\* mutant: a failing page ends the loop (break for continue)
RECURSIVE PagesFromMutant(_, _, _)
PagesFromMutant(pages, i, builder) ==
    IF i > Len(pages) THEN builder
    ELSE IF ~pages[i].ok THEN builder
    ELSE PagesFromMutant(pages, i + 1, builder \o pages[i].text)

\* the loop over reader.Page(i), i from 1 to NumPage
RECURSIVE PagesFrom(_, _, _)
PagesFrom(pages, i, builder) ==
    IF i > Len(pages) THEN builder
    ELSE IF ~pages[i].ok THEN PagesFrom(pages, i + 1, builder)
    ELSE PagesFrom(pages, i + 1, builder \o pages[i].text)

extractPDFText(file) ==
    IF ~file.readOk THEN [text |-> <<>>, err |-> "error reading PDF file"]
    ELSE IF ~file.valid THEN [text |-> <<>>, err |-> "error creating PDF reader"]
    ELSE [text |-> PagesFrom(file.pages, 1, <<>>), err |-> "nil"]

\* "Read and process file content": text and the err that line 93 tests.
\* In the else branch ":=" declares a new err, so the outer err keeps errIn.
ReadContent(contentType, file, errIn) ==
    IF contentType = "application/pdf"
    THEN extractPDFText(file)
    ELSE [text |-> IF file.readOk THEN file.text ELSE <<>>, err |-> errIn]

\* mutant: the Frequencies field left out of the literal
NewAnalysisMutant(id, freqs) == [ID |-> id, Frequencies |-> <<>>]

NewAnalysis(id, freqs) == [ID |-> id, Frequencies |-> freqs]

\* mutant: the map is replaced by one holding the new entry only
MapInsertMutant(m, id, analysis) == [k \in {id} |-> analysis]

\* store.analyses[id] = analysis
MapInsert(m, id, analysis) ==
    [k \in DOMAIN m \cup {id} |-> IF k = id THEN analysis ELSE m[k]]

\* analysis, exists := store.analyses[id]
MapLookup(m, id) ==
    IF id \in DOMAIN m
    THEN [analysis |-> m[id], exists |-> TRUE]
    ELSE [analysis |-> ZeroAnalysis, exists |-> FALSE]

\* mutant: Lock does not wait for the readers
CanLockMutant(writer, readers) == writer = 0

\* store.mu.Lock() returns when no writer and no reader holds the lock.
\* (sync.RWMutex also holds new readers back while a writer waits; leaving
\* that out only adds interleavings.)
CanLock(writer, readers) == writer = 0 /\ readers = {}

\* store.mu.RLock() returns when no writer holds the lock
CanRLock(writer) == writer = 0

ErrorResp(status, message) ==
    [status |-> status, error |-> message, id |-> 0, analysis |-> ZeroAnalysis]

UploadStart(p) ==
    /\ pc[p] = "idle"
    /\ started < MaxRequests
    /\ \E form \in Forms :
        /\ \E ct \in ContentTypes, f \in Files :
            /\ form # "ok" => ct = "text/plain" /\ f = NoFile
            /\ req' = [req EXCEPT ![p] =
                [kind |-> "upload", form |-> form, contentType |-> ct, file |-> f, id |-> 0]]
        /\ IF form = "too large"
           THEN /\ resp' = [resp EXCEPT ![p] = ErrorResp(400, "File too large")]
                /\ pc' = [pc EXCEPT ![p] = "done"]
           ELSE IF form = "no file"
           THEN /\ resp' = [resp EXCEPT ![p] = ErrorResp(400, "Error retrieving file")]
                /\ pc' = [pc EXCEPT ![p] = "done"]
           ELSE /\ resp' = resp
                /\ pc' = [pc EXCEPT ![p] = "validate"]
    /\ started' = started + 1
    /\ UNCHANGED <<analyses, muWriter, muReaders, issued, text, err, frequencies,
                   analysisID, lookup, uploaded, known, textVars>>

UploadValidate(p) ==
    /\ pc[p] = "validate"
    /\ IF ~isValidContentType(req[p].contentType)
       THEN /\ resp' = [resp EXCEPT ![p] = ErrorResp(400,
                    "Invalid file type. Only text/plain and application/pdf are supported")]
            /\ pc' = [pc EXCEPT ![p] = "done"]
       ELSE /\ resp' = resp
            /\ pc' = [pc EXCEPT ![p] = "read"]
    /\ UNCHANGED <<analyses, muWriter, muReaders, issued, req, text, err, frequencies,
                   analysisID, lookup, started, uploaded, known, textVars>>

UploadRead(p) ==
    /\ pc[p] = "read"
    /\ LET r == ReadContent(req[p].contentType, req[p].file, err[p])
       IN  /\ text' = [text EXCEPT ![p] = r.text]
           /\ err' = [err EXCEPT ![p] = r.err]
           /\ IF r.err # "nil"
              THEN /\ resp' = [resp EXCEPT ![p] = ErrorResp(500, "Error reading file content")]
                   /\ pc' = [pc EXCEPT ![p] = "done"]
              ELSE /\ resp' = resp
                   /\ pc' = [pc EXCEPT ![p] = "process"]
    /\ UNCHANGED <<analyses, muWriter, muReaders, issued, req, frequencies,
                   analysisID, lookup, started, uploaded, known, textVars>>

UploadProcess(p) ==
    /\ pc[p] = "process"
    /\ \E r \in processText(text[p]) :
        frequencies' = [frequencies EXCEPT ![p] = r]
    /\ pc' = [pc EXCEPT ![p] = "newid"]
    /\ UNCHANGED <<analyses, muWriter, muReaders, issued, req, text, err,
                   analysisID, lookup, resp, started, uploaded, known, textVars>>

UploadNewID(p) ==
    /\ pc[p] = "newid"
    /\ \E id \in Ids \ issued :
        /\ analysisID' = [analysisID EXCEPT ![p] = id]
        /\ issued' = issued \cup {id}
    /\ pc' = [pc EXCEPT ![p] = "lock"]
    /\ UNCHANGED <<analyses, muWriter, muReaders, req, text, err, frequencies,
                   lookup, resp, started, uploaded, known, textVars>>

UploadLock(p) ==
    /\ pc[p] = "lock"
    /\ CanLock(muWriter, muReaders)
    /\ muWriter' = p
    /\ pc' = [pc EXCEPT ![p] = "insert"]
    /\ UNCHANGED <<analyses, muReaders, issued, req, text, err, frequencies,
                   analysisID, lookup, resp, started, uploaded, known, textVars>>

UploadInsert(p) ==
    /\ pc[p] = "insert"
    /\ analyses' = MapInsert(analyses, analysisID[p],
                             NewAnalysis(analysisID[p], frequencies[p]))
    /\ pc' = [pc EXCEPT ![p] = "unlock"]
    /\ UNCHANGED <<muWriter, muReaders, issued, req, text, err, frequencies,
                   analysisID, lookup, resp, started, uploaded, known, textVars>>

UploadUnlock(p) ==
    /\ pc[p] = "unlock"
    /\ muWriter' = 0
    /\ pc' = [pc EXCEPT ![p] = "respond"]
    /\ UNCHANGED <<analyses, muReaders, issued, req, text, err, frequencies,
                   analysisID, lookup, resp, started, uploaded, known, textVars>>

UploadRespond(p) ==
    /\ pc[p] = "respond"
    /\ resp' = [resp EXCEPT ![p] =
            [status |-> 200, error |-> "", id |-> analysisID[p], analysis |-> ZeroAnalysis]]
    /\ uploaded' = [id \in DOMAIN uploaded \cup {analysisID[p]} |->
                        IF id = analysisID[p] THEN frequencies[p] ELSE uploaded[id]]
    /\ pc' = [pc EXCEPT ![p] = "done"]
    /\ UNCHANGED <<analyses, muWriter, muReaders, issued, req, text, err, frequencies,
                   analysisID, lookup, started, known, textVars>>

\* ------------------------------------------------------ handleGetAnalysis
\* mutant: the "exists" test left out
GetResponseMutant(l) ==
    [status |-> 200, error |-> "", id |-> 0, analysis |-> l.analysis]

\* "if !exists" and the two answers
GetResponse(l) ==
    IF ~l.exists
    THEN ErrorResp(404, "Analysis not found")
    ELSE [status |-> 200, error |-> "", id |-> 0, analysis |-> l.analysis]

GetStart(p) ==
    /\ pc[p] = "idle"
    /\ started < MaxRequests
    /\ \E id \in GetIds :
        req' = [req EXCEPT ![p] =
            [kind |-> "get", form |-> "ok", contentType |-> "", file |-> NoFile, id |-> id]]
    /\ known' = [known EXCEPT ![p] = DOMAIN uploaded]
    /\ started' = started + 1
    /\ pc' = [pc EXCEPT ![p] = "rlock"]
    /\ UNCHANGED <<analyses, muWriter, muReaders, issued, text, err, frequencies,
                   analysisID, lookup, resp, uploaded, textVars>>

GetRLock(p) ==
    /\ pc[p] = "rlock"
    /\ CanRLock(muWriter)
    /\ muReaders' = muReaders \cup {p}
    /\ pc' = [pc EXCEPT ![p] = "lookup"]
    /\ UNCHANGED <<analyses, muWriter, issued, req, text, err, frequencies,
                   analysisID, lookup, resp, started, uploaded, known, textVars>>

GetLookup(p) ==
    /\ pc[p] = "lookup"
    /\ lookup' = [lookup EXCEPT ![p] = MapLookup(analyses, req[p].id)]
    /\ pc' = [pc EXCEPT ![p] = "runlock"]
    /\ UNCHANGED <<analyses, muWriter, muReaders, issued, req, text, err, frequencies,
                   analysisID, resp, started, uploaded, known, textVars>>

GetRUnlock(p) ==
    /\ pc[p] = "runlock"
    /\ muReaders' = muReaders \ {p}
    /\ pc' = [pc EXCEPT ![p] = "answer"]
    /\ UNCHANGED <<analyses, muWriter, issued, req, text, err, frequencies,
                   analysisID, lookup, resp, started, uploaded, known, textVars>>

GetRespond(p) ==
    /\ pc[p] = "answer"
    /\ resp' = [resp EXCEPT ![p] = GetResponse(lookup[p])]
    /\ pc' = [pc EXCEPT ![p] = "done"]
    /\ UNCHANGED <<analyses, muWriter, muReaders, issued, req, text, err, frequencies,
                   analysisID, lookup, started, uploaded, known, textVars>>

\* the handler returns; the worker is free for the next request
Finish(p) ==
    /\ pc[p] = "done"
    /\ pc' = [pc EXCEPT ![p] = "idle"]
    /\ req' = [req EXCEPT ![p] = NoReq]
    /\ text' = [text EXCEPT ![p] = <<>>]
    /\ err' = [err EXCEPT ![p] = "nil"]
    /\ frequencies' = [frequencies EXCEPT ![p] = <<>>]
    /\ analysisID' = [analysisID EXCEPT ![p] = 0]
    /\ lookup' = [lookup EXCEPT ![p] = NoLookup]
    /\ resp' = [resp EXCEPT ![p] = NoResp]
    /\ known' = [known EXCEPT ![p] = {}]
    /\ UNCHANGED <<analyses, muWriter, muReaders, issued, started, uploaded, textVars>>

Next ==
    \E p \in Workers :
        \/ UploadStart(p)
        \/ UploadValidate(p)
        \/ UploadRead(p)
        \/ UploadProcess(p)
        \/ UploadNewID(p)
        \/ UploadLock(p)
        \/ UploadInsert(p)
        \/ UploadUnlock(p)
        \/ UploadRespond(p)
        \/ GetStart(p)
        \/ GetRLock(p)
        \/ GetLookup(p)
        \/ GetRUnlock(p)
        \/ GetRespond(p)
        \/ Finish(p)

Spec == Init /\ [][Next]_vars

\* ============================================================== TextSpec
TextInit ==
    /\ ServerInit
    /\ tText \in Texts
    /\ tWords = <<>>
    /\ tResult = <<>>
    /\ tDone = FALSE

ProcessTextCall ==
    /\ ~tDone
    /\ tWords' = FindAllString(ToLower(tText))
    /\ \E r \in processText(tText) : tResult' = r
    /\ tDone' = TRUE
    /\ UNCHANGED <<tText, serverVars>>

TextNext == ProcessTextCall

TextSpec == TextInit /\ [][TextNext]_vars

\* ================================================================ claims
IsUpload(p) == req[p].kind = "upload" /\ req[p].form = "ok"
IsGet(p) == req[p].kind = "get"

\* the maximal runs of letters of text, left to right
RECURSIVE LetterRunsFrom(_, _)
LetterRunsFrom(str, i) ==
    IF i > Len(str) THEN <<>>
    ELSE IF ~IsLetter(str[i]) THEN LetterRunsFrom(str, i + 1)
    ELSE LET e == Max({k \in i..Len(str) : \A j \in i..k : IsLetter(str[j])})
         IN  <<SubSeq(str, i, e)>> \o LetterRunsFrom(str, e + 1)

LetterRuns(str) == LetterRunsFrom(str, 1)

\* C1: the words processText counts are exactly the maximal runs of letters
\* of the lowercased text, in order; every non-letter only separates.
C1_WordsAreLetterRuns ==
    tDone => tWords = LetterRuns(ToLower(tText))

Occurrences(words, w) == Cardinality({k \in DOMAIN words : words[k] = w})

RECURSIVE SumFrequencies(_, _)
SumFrequencies(s, i) ==
    IF i > Len(s) THEN 0 ELSE s[i].Frequency + SumFrequencies(s, i + 1)

\* C5: the result has one entry per distinct word, each with the positive
\* number of occurrences of its word; the frequencies add up to the number of
\* words; no words, no entries.
C5_OneEntryPerWord ==
    tDone =>
        /\ {tResult[i].Word : i \in DOMAIN tResult} = {tWords[k] : k \in DOMAIN tWords}
        /\ \A i, j \in DOMAIN tResult : i # j => tResult[i].Word # tResult[j].Word
        /\ \A i \in DOMAIN tResult :
            /\ tResult[i].Frequency > 0
            /\ tResult[i].Frequency = Occurrences(tWords, tResult[i].Word)
        /\ SumFrequencies(tResult, 1) = Len(tWords)
        /\ (tWords = <<>> => tResult = <<>>)

\* a text with a repeated word and a second word
C5_Witness ==
    /\ tDone
    /\ Len(tResult) >= 2
    /\ Len(tWords) > Len(tResult)

\* C6: the slice processText returns is sorted non-increasing by frequency,
\* whatever order the map was enumerated in.
C6_SortedByFrequency ==
    tDone =>
        \A i \in 1..(Len(tResult) - 1) :
            tResult[i].Frequency >= tResult[i + 1].Frequency

\* a result with two different frequencies
C6_Witness ==
    /\ tDone
    /\ \E i \in 1..(Len(tResult) - 1) :
        tResult[i].Frequency > tResult[i + 1].Frequency

ReadFails(p) ==
    \/ ~req[p].file.readOk
    \/ req[p].contentType = "application/pdf" /\ ~req[p].file.valid

\* C2: an upload of an accepted media type whose bytes cannot be read, or
\* whose PDF is invalid, ends with an error answer and stores nothing.
C2_ReadFailureEndsRequest ==
    \A p \in Workers :
        (/\ IsUpload(p)
         /\ req[p].contentType \in {"text/plain", "application/pdf"}
         /\ ReadFails(p)
         /\ pc[p] \notin {"validate", "read"})
        => /\ pc[p] = "done"
           /\ resp[p].status = 500
           /\ analysisID[p] = 0

\* C3: a GET that begins after an upload was answered with an id is answered
\* with the Analysis of that id and the frequencies that upload computed.
C3_RoundTrip ==
    \A p \in Workers :
        (IsGet(p) /\ pc[p] = "done" /\ req[p].id \in known[p])
        => /\ resp[p].status = 200
           /\ resp[p].analysis =
                [ID |-> req[p].id, Frequencies |-> uploaded[req[p].id]]

\* such a GET, of a non-empty analysis, with another upload stored as well
C3_Witness ==
    \E p \in Workers :
        /\ IsGet(p) /\ pc[p] = "done" /\ req[p].id \in known[p]
        /\ Len(resp[p].analysis.Frequencies) >= 2
        /\ Cardinality(DOMAIN analyses) >= 2

\* C4: an upload of any other media type is answered 400 at the validation,
\* before anything is read, extracted or counted, and stores nothing.
C4_InvalidTypeRejected ==
    \A p \in Workers :
        (IsUpload(p) /\ req[p].contentType \notin {"text/plain", "application/pdf"})
        => /\ pc[p] \in {"validate", "done"}
           /\ pc[p] = "done" => resp[p].status = 400
           /\ text[p] = <<>>
           /\ frequencies[p] = <<>>
           /\ analysisID[p] = 0

\* a rejected upload of a readable text file as "text/plain; charset=utf-8"
C4_Witness ==
    \E p \in Workers :
        /\ IsUpload(p) /\ pc[p] = "done"
        /\ req[p].contentType = "text/plain; charset=utf-8"
        /\ req[p].file.readOk /\ req[p].file.text # <<>>
        /\ resp[p].status = 400

GetStep(p) == IsGet(p) /\ pc'[p] # pc[p]

\* C7: a GET's lookup of an id that is no key finds nothing, a GET that found
\* nothing is answered 404, and no step of a GET changes the store.
C7_UnknownIdNotFound ==
    [][\A p \in Workers :
        GetStep(p) =>
            /\ analyses' = analyses
            /\ (pc[p] = "lookup" /\ req[p].id \notin DOMAIN analyses)
                => lookup'[p] = [analysis |-> ZeroAnalysis, exists |-> FALSE]
            /\ (pc[p] = "answer" /\ ~lookup[p].exists)
                => /\ resp'[p].status = 404
                   /\ resp'[p].analysis = ZeroAnalysis]_vars

\* a GET answered 404 for an id that is no key, the store not empty
C7_Witness ==
    \E p \in Workers :
        /\ IsGet(p) /\ pc[p] = "done"
        /\ req[p].id \notin DOMAIN analyses
        /\ resp[p].status = 404
        /\ DOMAIN analyses # {}

InWrite(p) == pc[p] \in {"insert", "unlock"}
InRead(p) == pc[p] \in {"lookup", "runlock"}

\* C8: while an upload is between Lock and Unlock no other handler is in its
\* critical section; an upload holds the lock nowhere else, in particular not
\* while it reads the file or counts the words.
C8_ReaderWriterExclusion ==
    \A p \in Workers :
        /\ InWrite(p) => \A q \in Workers \ {p} : ~InWrite(q) /\ ~InRead(q)
        /\ (muWriter = p) <=> InWrite(p)
        /\ (p \in muReaders) <=> InRead(p)

\* an upload in its critical section with another handler waiting for the lock
C8_Witness ==
    \E p, q \in Workers :
        /\ InWrite(p)
        /\ pc[q] \in {"lock", "rlock"}

InsertStep(p) == pc[p] = "insert" /\ pc'[p] = "unlock"

\* C9: every entry of the store stays as written; an insertion adds one entry
\* under a new key; nothing else changes the store; the store holds one entry
\* per upload that has inserted.
C9_StoreOnlyGrows ==
    /\ [][/\ \A id \in DOMAIN analyses :
                id \in DOMAIN analyses' /\ analyses'[id] = analyses[id]
          /\ \A p \in Workers :
                InsertStep(p) =>
                    /\ analysisID[p] \notin DOMAIN analyses
                    /\ DOMAIN analyses' = DOMAIN analyses \cup {analysisID[p]}
          /\ (\A p \in Workers : ~InsertStep(p)) => analyses' = analyses]_vars
    /\ [](Cardinality(DOMAIN analyses) =
            Cardinality(DOMAIN uploaded)
            + Cardinality({p \in Workers : pc[p] \in {"unlock", "respond"}}))

\* two uploads of the same content answered, each with its entry
C9_Witness ==
    \E i, j \in DOMAIN uploaded :
        /\ i # j
        /\ uploaded[i] = uploaded[j]
        /\ uploaded[i] # <<>>
        /\ {i, j} \subseteq DOMAIN analyses

\* the texts of the pages that were extracted, in page order
RECURSIVE ExtractedText(_)
ExtractedText(pages) ==
    IF pages = <<>> THEN <<>>
    ELSE (IF Head(pages).ok THEN Head(pages).text ELSE <<>>) \o ExtractedText(Tail(pages))

ValidPdfUpload(p) ==
    /\ IsUpload(p)
    /\ req[p].contentType = "application/pdf"
    /\ req[p].file.readOk
    /\ req[p].file.valid

\* C10: for a valid PDF the text is the texts of the extracted pages in page
\* order, there is no error, and the upload is answered 200 with its Analysis
\* stored.
C10_FailedPagesSkipped ==
    \A p \in Workers :
        (ValidPdfUpload(p) /\ pc[p] \notin {"validate", "read"})
        => /\ text[p] = ExtractedText(req[p].file.pages)
           /\ err[p] = "nil"
           /\ pc[p] = "done" =>
                /\ resp[p].status = 200
                /\ resp[p].id = analysisID[p]
                /\ analysisID[p] \in DOMAIN analyses
                /\ analyses[analysisID[p]].Frequencies = frequencies[p]

\* an answered upload of a PDF whose first page failed and a later one did not
C10_Witness ==
    \E p \in Workers :
        /\ ValidPdfUpload(p) /\ pc[p] = "done"
        /\ Len(req[p].file.pages) >= 2
        /\ ~req[p].file.pages[1].ok
        /\ text[p] # <<>>

====
